---- MODULE Spec2Model ----
(***************************************************************************)
(* A model of create_par2.py: the greedy packer distribute_files_uniformly,*)
(* the block-size heuristic get_suitable_block_size, and the pipeline of   *)
(* main() with its verification sweep.                                     *)
(*                                                                         *)
(* Files are numbered by the rank of their path in sorted order, so that   *)
(* Python's comparison of (size, path) tuples is a comparison of           *)
(* (size, number) pairs.  A Decimal fraction f is the pair <<p, q>> of its  *)
(* numerator and denominator; every quantity the code computes with f is   *)
(* kept exact by scaling with q.                                           *)
(***************************************************************************)
EXTENDS Integers, Sequences, FiniteSets, Bags, TLC

\* ------------------------------------------------------------------ bounds
MaxFiles == 3
MaxSize == 3
MaxBins == 3
MaxIterations == 6
MaxTotalSize == 1000000000
MaxVolumes == 4

\* ------------------------------------------------------- program constants
BLOCK_TARGET == 20000
MEBIBYTE == 1048576
MIN_BLOCK_SIZE == 4096
MIN_NUM_VOLUMES == 3
DEFAULT_REDUNDANCY == 11
MAX_NUM_FILES == 6000
MAX_RECOVERY_BLOCKS == 20000

\* ----------------------------------------------------------------- helpers
Max(S) == CHOOSE x \in S : \A y \in S : y <= x

Min(S) == CHOOSE x \in S : \A y \in S : x <= y

RECURSIVE sum(_)
sum(s) == IF s = <<>> THEN 0 ELSE Head(s) + sum(Tail(s))

reversed(s) == [i \in 1..Len(s) |-> s[Len(s) + 1 - i]]

\* Python's int(a / f) for a >= 0 and f = p/q: truncation of a*q/p.
int_div_fraction(a, f) == (a * f[2]) \div f[1]

\* (size, file) tuples compare by size, then by file.
tuple_less(a, b) == a[1] < b[1] \/ (a[1] = b[1] /\ a[2] < b[2])

RECURSIVE sorted_tuples(_)
sorted_tuples(S) ==
    IF S = {} THEN <<>>
    ELSE LET m == CHOOSE x \in S : \A y \in S \ {x} : tuple_less(x, y)
         IN  <<m>> \o sorted_tuples(S \ {m})

\* -------------------------------------------------------------- the packer
\* The value is scaled by q (the denominator of the fraction), as are the
\* regular bins' overshoots it is compared with in index_of_smallest.
\* The overshoot returned as it is, without the division of line 128.
calculate_last_overshoot_unscaled(file_size, max_bin_size, last_bin_size, last_bin_size_fraction) ==
    LET p == last_bin_size_fraction[1]
        q == last_bin_size_fraction[2]
    IN  file_size * q - (max_bin_size * p - last_bin_size * q)

calculate_last_overshoot(file_size, max_bin_size, last_bin_size, last_bin_size_fraction) ==
    LET p == last_bin_size_fraction[1]
        q == last_bin_size_fraction[2]
        \* overshoot * q, where
        \* overshoot = file_size - (max_bin_size * p/q - last_bin_size)
        overshoot_q == file_size * q - (max_bin_size * p - last_bin_size * q)
    IN  IF overshoot_q < 0
        THEN overshoot_q
        ELSE q * (overshoot_q \div p)

index_of_smallest_last(a) ==
    CHOOSE i \in 1..Len(a) :
        /\ \A j \in 1..Len(a) : a[i] <= a[j]
        /\ \A j \in (i+1)..Len(a) : a[j] > a[i]

index_of_smallest(a) ==
    CHOOSE i \in 1..Len(a) :
        /\ \A j \in 1..Len(a) : a[i] <= a[j]
        /\ \A j \in 1..(i-1) : a[j] > a[i]

\* The overshoots of one loop iteration, each scaled by q; needs Len >= 2.
overshoot_if_put_in_bin(size, bin_sizes_, last_bin_size_fraction) ==
    LET n == Len(bin_sizes_)
        q == last_bin_size_fraction[2]
        adjusted_last_bin_size == int_div_fraction(bin_sizes_[n], last_bin_size_fraction)
        max_bin_size == Max({adjusted_last_bin_size} \cup {bin_sizes_[k] : k \in 1..(n-1)})
    IN  [k \in 1..n |->
            IF k < n
            THEN q * (size - (max_bin_size - bin_sizes_[k]))
            ELSE calculate_last_overshoot(size, max_bin_size, bin_sizes_[n],
                                          last_bin_size_fraction)]

target_index(size, bin_sizes_, last_bin_size_fraction) ==
    index_of_smallest(overshoot_if_put_in_bin(size, bin_sizes_, last_bin_size_fraction))

\* One iteration of the loop: which exception it raises, if any.
\* bin_sizes[-1] of an empty list is an IndexError; max() of the single
\* argument adjusted_last_bin_size (bin_sizes[:-1] empty) is a TypeError.
place_raises(bin_sizes_) ==
    IF Len(bin_sizes_) = 0 THEN "IndexError"
    ELSE IF Len(bin_sizes_) = 1 THEN "TypeError"
    ELSE "none"

append_to_bin(bins_, k, file) == [bins_ EXCEPT ![k] = Append(@, file)]

add_to_bin_size_first(bin_sizes_, k, size) == [bin_sizes_ EXCEPT ![1] = @ + size]

add_to_bin_size(bin_sizes_, k, size) == [bin_sizes_ EXCEPT ![k] = @ + size]

empty_bins(num_bins_) == [i \in 1..(IF num_bins_ < 0 THEN 0 ELSE num_bins_) |-> <<>>]

zero_bin_sizes(num_bins_) == [i \in 1..(IF num_bins_ < 0 THEN 0 ELSE num_bins_) |-> 0]

sorted_sizes_to_files(files_with_sizes_) ==
    sorted_tuples({<<files_with_sizes_[f], f>> : f \in DOMAIN files_with_sizes_})

\* The whole loop, as main and move_files_to_destination_dir run it.
RECURSIVE distribute_loop(_, _, _, _)
distribute_loop(todo, bins_, bin_sizes_, last_bin_size_fraction) ==
    IF todo = <<>> THEN [raised |-> "none", bins |-> bins_, bin_sizes |-> bin_sizes_]
    ELSE IF place_raises(bin_sizes_) # "none"
    THEN [raised |-> place_raises(bin_sizes_), bins |-> bins_, bin_sizes |-> bin_sizes_]
    ELSE LET size == Head(todo)[1]
             file == Head(todo)[2]
             k == target_index(size, bin_sizes_, last_bin_size_fraction)
         IN  distribute_loop(Tail(todo), append_to_bin(bins_, k, file),
                             add_to_bin_size(bin_sizes_, k, size), last_bin_size_fraction)

distribute_files_uniformly(files_with_sizes_, num_bins_, last_bin_size_fraction) ==
    distribute_loop(reversed(sorted_sizes_to_files(files_with_sizes_)),
                    empty_bins(num_bins_), zero_bin_sizes(num_bins_),
                    last_bin_size_fraction)

\* ------------------------------------------------- the block-size heuristic
\* file_sizes.values() is a bag of sizes; sorted(...) of it is the list this
\* reads by index (from 0, as the code does).
len_sizes(values) == BagCardinality(values)

total_size_of(values) ==
    LET RECURSIVE weighted(_)
        weighted(S) == IF S = {} THEN 0
                       ELSE LET x == CHOOSE y \in S : TRUE
                            IN  x * values[x] + weighted(S \ {x})
    IN  weighted(DOMAIN values)

sizes_at(values, index) ==
    Min({x \in DOMAIN values :
            BagCardinality([y \in {z \in DOMAIN values : z <= x} |-> values[y]]) > index})

sizes_last(values) == Max(DOMAIN values)

\* Line 288: total_size / x raises when x == sizes[-1] == 0.
initial_raises(values) ==
    LET x == sizes_at(values, len_sizes(values) \div 4)
    IN  IF x = sizes_last(values) /\ x = 0 THEN "ZeroDivisionError" ELSE "none"

\* Lines 287-298, when line 288 does not raise.
initial_block_size(values) ==
    LET x == sizes_at(values, len_sizes(values) \div 4)
    IN  IF x = sizes_last(values)
           /\ (total_size_of(values) \div x) + len_sizes(values) < BLOCK_TARGET
        THEN IF x > MEBIBYTE
             THEN LET approximate_size_in_MB == x \div MEBIBYTE
                  IN  (x + approximate_size_in_MB - 1) \div approximate_size_in_MB
             ELSE x
        ELSE Max({sizes_at(values, len_sizes(values) \div 5) \div 4, MIN_BLOCK_SIZE})

\* Line 301.
too_many_blocks(values, block_size_) ==
    (total_size_of(values) \div block_size_) + len_sizes(values) > BLOCK_TARGET

\* Line 302.
doubled(values, block_size_) == Min({block_size_ * 2, sizes_last(values)})

\* Lines 305-306.
multiple_of_4(block_size_) ==
    IF block_size_ % 4 # 0 THEN block_size_ + (4 - (block_size_ % 4)) ELSE block_size_

\* The while loop as main runs it.  An iteration that leaves block_size as it
\* was while the condition holds repeats for ever: "hang".
RECURSIVE doubling_loop(_, _)
doubling_loop(values, block_size_) ==
    IF ~too_many_blocks(values, block_size_)
    THEN [raised |-> "none", block_size |-> multiple_of_4(block_size_)]
    ELSE IF doubled(values, block_size_) = block_size_
    THEN [raised |-> "hang", block_size |-> block_size_]
    ELSE doubling_loop(values, doubled(values, block_size_))

get_suitable_block_size(values) ==
    IF initial_raises(values) # "none"
    THEN [raised |-> initial_raises(values), block_size |-> 0]
    ELSE doubling_loop(values, initial_block_size(values))

\* Lines 311-316.
get_total_num_blocks(values, block_size_) ==
    LET RECURSIVE blocks(_)
        blocks(S) == IF S = {} THEN 0
                     ELSE LET x == CHOOSE y \in S : TRUE
                          IN  values[x] * ((x + block_size_ - 1) \div block_size_)
                              + blocks(S \ {x})
    IN  blocks(DOMAIN values)

\* ------------------------------------------------------------ verification
\* A directory is the set of the names in it.  A name is <<kind, number>>:
\* a data or recovery file, the par2 index file (one copy in every volume
\* directory) or the MD5SUM file (one in every volume directory).
par2_index_name == <<"par2", 0>>

md5sum_name == <<"MD5SUM", 0>>

file_names(files) == {<<"file", f>> : f \in files}

\* Lines 226-231 for one link_dir: a link dst -> src for every name of the
\* directory that is not yet a link in test_dir.  A link is <<name, volume>>.
links_after_dir(links_, link_dir, names) ==
    links_ \cup {<<f, link_dir>> : f \in {g \in names : \A l \in links_ : l[1] # g}}

\* Lines 223-224.
is_skipped_never(link_dir, skip_dir) == FALSE

is_skipped(link_dir, skip_dir) == link_dir = skip_dir

\* Lines 235-246: what the return code of par2 verify raises.
raised_by_return_code_never(return_code) == "none"

raised_by_return_code(return_code) ==
    IF return_code = 0 THEN "none"
    ELSE IF return_code = 1 THEN "none"
    ELSE "SystemExit"

\* Lines 247-248: the finally clause runs whatever the try block raised.
rmtree_unless_raised(dirs, test_dir, raised_) ==
    IF raised_ = "none" THEN dirs \ {test_dir} ELSE dirs

rmtree_in_finally(dirs, test_dir, raised_) == dirs \ {test_dir}

\* The status the process exits with: SystemExit(1) and every uncaught
\* exception give 1.
exit_status_of(raised_) == IF raised_ = "none" THEN 0 ELSE 1

\* -------------------------------------------------------------------- main
\* A redundancy (a Decimal) is its number of tenths: 11 is 1.1.
\* Line 410: None and Decimal 0 are both false.
redundancy_or_default(args_redundancy_) ==
    IF args_redundancy_ = 0 THEN DEFAULT_REDUNDANCY ELSE args_redundancy_

\* Lines 412-418: what the checks of the arguments raise.
check_args_raises(num_volumes_, redundancy_, args_block_size_, args_num_blocks_) ==
    IF redundancy_ > 10 * (num_volumes_ - 1) THEN "SystemExit"
    ELSE IF args_num_blocks_ # 0 /\ args_block_size_ # 0 THEN "SystemExit"
    ELSE "none"

\* Lines 25-33 and 420-421: the entries of indir that are kept, by their
\* rank in the sorted listing.
filter_infiles(indir_) ==
    {i \in 1..Len(indir_) : indir_[i].basename # ".DS_Store"}

infiles_paths_of(indir_) ==
    {i \in filter_infiles(indir_) : indir_[i].kind = "file"}

\* os.path.splitext gives a (root, ext) tuple.
splitext(entry) == <<entry.basename, entry.ext>>

\* Line 445 compares that tuple with a str; in Python they are never equal.
tuple_equals_str(tuple, str) == FALSE

\* Lines 423-451: what the checks of the input files raise.
check_infiles_raises(indir_, num_volumes_, redundancy_, force_) ==
    LET infiles_paths == infiles_paths_of(indir_)
    IN  IF infiles_paths = {} THEN "SystemExit"
        ELSE IF 10 * Cardinality(infiles_paths) < 10 * num_volumes_ - redundancy_
                /\ ~force_
        THEN "SystemExit"
        ELSE IF Cardinality(infiles_paths) > MAX_NUM_FILES THEN "SystemExit"
        ELSE IF \E i \in infiles_paths :
                    tuple_equals_str(splitext(indir_[i]), ".par2") /\ ~force_
        THEN "SystemExit"
        ELSE "none"

\* Line 454.
input_filesizes_of(indir_) == [i \in infiles_paths_of(indir_) |-> indir_[i].size]

\* Line 456: redundancy % 1 or 1.
last_bin_size_fraction_of(redundancy_) ==
    IF redundancy_ % 10 = 0 THEN <<1, 1>> ELSE <<redundancy_ % 10, 10>>

\* Every volume taken as a data bin, the redundancy not subtracted.
num_bins_of_all_volumes(num_volumes_, redundancy_) == num_volumes_

\* Line 458: args.num_volumes - int(math.floor(redundancy)).
num_bins_of(num_volumes_, redundancy_) == num_volumes_ - (redundancy_ \div 10)

\* Line 460.
adjusted_bin_sizes_of(bin_sizes_, last_bin_size_fraction) ==
    [k \in 1..Len(bin_sizes_) |->
        IF k < Len(bin_sizes_) THEN bin_sizes_[k]
        ELSE int_div_fraction(bin_sizes_[k], last_bin_size_fraction)]

max_of_seq(seq) == Max({seq[k] : k \in 1..Len(seq)})

\* Lines 463-465: unevenness > args.num_volumes - 0.05 and not args.force,
\* with unevenness = max / (sum / len), cleared of its denominators.
feasibility_blocks_forced(adjusted_bin_sizes_, num_volumes_, force_) ==
    20 * Len(adjusted_bin_sizes_) * max_of_seq(adjusted_bin_sizes_)
        > (20 * num_volumes_ - 1) * sum(adjusted_bin_sizes_)

feasibility_blocks(adjusted_bin_sizes_, num_volumes_, force_) ==
    /\ 20 * Len(adjusted_bin_sizes_) * max_of_seq(adjusted_bin_sizes_)
           > (20 * num_volumes_ - 1) * sum(adjusted_bin_sizes_)
    /\ ~force_

\* Lines 463-471: line 464 divides by the average, 0.0 when every size is 0;
\* line 467 reads args.compression, an attribute the parser never sets, so
\* the message is never printed and the AttributeError ends the run.
feasibility_raises(adjusted_bin_sizes_, num_volumes_, force_) ==
    IF sum(adjusted_bin_sizes_) = 0 THEN "ZeroDivisionError"
    ELSE IF feasibility_blocks(adjusted_bin_sizes_, num_volumes_, force_)
    THEN "AttributeError"
    ELSE "none"

\* file_sizes.values(): the bag of the sizes of a map.
values_of(file_sizes_) ==
    LET sizes == {file_sizes_[f] : f \in DOMAIN file_sizes_}
    IN  [x \in sizes |-> Cardinality({f \in DOMAIN file_sizes_ : file_sizes_[f] = x})]

\* Lines 319-323 with line 520: redundancy_fraction = redundancy / num_volumes,
\* so fraction / (1 - fraction) = redundancy / (num_volumes - redundancy).
get_num_recovery_blocks(num_data_blocks_, redundancy_, num_volumes_) ==
    LET numerator == num_data_blocks_ * redundancy_
        denominator == 10 * num_volumes_ - redundancy_
    IN  (numerator + denominator - 1) \div denominator

\* Line 99.
recovery_blocks_assertion_inclusive(num_recovery_blocks_) ==
    0 < num_recovery_blocks_ /\ num_recovery_blocks_ <= MAX_RECOVERY_BLOCKS

recovery_blocks_assertion(num_recovery_blocks_) ==
    0 < num_recovery_blocks_ /\ num_recovery_blocks_ < MAX_RECOVERY_BLOCKS

\* ------------------------------------------------------------------ state
VARIABLES
    files_with_sizes,        \* distribute_files_uniformly: the argument map
    num_bins,                \* its num_bins argument
    pack_fraction,           \* its last_bin_size_fraction argument, <<p, q>>
    sizes_to_files,          \* the (size, file) tuples the loop has yet to take
    bins,
    bin_sizes,
    pack_pc,                 \* "call", "loop", "returned", or the exception raised
    file_size_values,        \* get_suitable_block_size: file_sizes.values(), a bag
    block_size,
    block_iterations,        \* iterations of the while loop run so far
    block_pc,                \* "call", "while", "round", "returned", or the exception
    num_volumes,             \* args.num_volumes
    volume_dirs,             \* the names in each directory of get_dest_dirs
    verify_i,                \* verify: the sweep, i + 1 of the code
    verify_link,             \* the link_dir the inner loop takes next
    scratch_dirs,            \* the sweeps whose test_dir exists
    links,                   \* the symlinks in the current test_dir
    verify_codes,            \* the return codes of par2 verify so far
    verify_raised,           \* the exception the try block raised
    verify_pc,               \* "mkdtemp", "link", "par2", "finally", "returned", "exited"
    args_redundancy,         \* args.redundancy in tenths, 0 when not given
    force,                   \* args.force
    indir,                   \* os.listdir(indir), sorted: a sequence of entries
    args_block_size,         \* args.block_size, 0 for None
    args_num_blocks,         \* args.num_blocks, 0 for None
    compress,                \* args.compress or args.encrypt
    adjusted_bin_sizes,
    tmpdir_exists,
    file_sizes,              \* the sizes of files_to_be_archived, [] before
    num_data_blocks,         \* total_blocks, or args.num_blocks
    num_recovery_blocks,
    processes,               \* the external programs run so far
    main_raised,             \* the exception raised, "none" if none
    exit_at,                 \* the step that raised it
    main_pc

pack_vars == <<files_with_sizes, num_bins, pack_fraction, sizes_to_files, bins,
               bin_sizes, pack_pc>>

block_vars == <<file_size_values, block_size, block_iterations, block_pc>>

verify_vars == <<num_volumes, volume_dirs, verify_i, verify_link, scratch_dirs, links,
                 verify_codes, verify_raised, verify_pc>>

main_vars == <<args_redundancy, force, indir, args_block_size, args_num_blocks, compress,
               adjusted_bin_sizes, tmpdir_exists, file_sizes, num_data_blocks,
               num_recovery_blocks, processes, main_raised, exit_at, main_pc>>

vars == <<pack_vars, block_vars, verify_vars, main_vars>>

\* ------------------------------------------- distribute_files_uniformly
PackFractions == {<<1, 1>>, <<1, 2>>, <<1, 10>>, <<9, 10>>}

FileMaps(sizes) == UNION {[S -> sizes] : S \in SUBSET (1..MaxFiles)}

MainIdle ==
    /\ args_redundancy = 0
    /\ force = FALSE
    /\ indir = <<>>
    /\ args_block_size = 0
    /\ args_num_blocks = 0
    /\ compress = FALSE
    /\ adjusted_bin_sizes = <<>>
    /\ tmpdir_exists = FALSE
    /\ file_sizes = <<>>
    /\ num_data_blocks = 0
    /\ num_recovery_blocks = 0
    /\ processes = {}
    /\ main_raised = "none"
    /\ exit_at = "none"
    /\ main_pc = "idle"

VerifyIdle ==
    /\ num_volumes = 0
    /\ volume_dirs = <<>>
    /\ verify_i = 0
    /\ verify_link = 0
    /\ scratch_dirs = {}
    /\ links = {}
    /\ verify_codes = <<>>
    /\ verify_raised = "none"
    /\ verify_pc = "idle"

BlockIdle ==
    /\ file_size_values = EmptyBag
    /\ block_size = 0
    /\ block_iterations = 0
    /\ block_pc = "idle"

PackInit ==
    /\ files_with_sizes \in FileMaps(0..MaxSize)
    /\ num_bins \in 0..MaxBins
    /\ pack_fraction \in PackFractions
    /\ sizes_to_files = <<>>
    /\ bins = <<>>
    /\ bin_sizes = <<>>
    /\ pack_pc = "call"
    /\ BlockIdle
    /\ VerifyIdle
    /\ MainIdle

\* Lines 139-144: the assertion holds for every fraction of PackFractions.
PackSetup ==
    /\ pack_pc = "call"
    /\ sizes_to_files' = reversed(sorted_sizes_to_files(files_with_sizes))
    /\ bins' = empty_bins(num_bins)
    /\ bin_sizes' = zero_bin_sizes(num_bins)
    /\ pack_pc' = "loop"
    /\ UNCHANGED <<files_with_sizes, num_bins, pack_fraction, block_vars, verify_vars, main_vars>>

\* Lines 146-156: one iteration.
PackPlace ==
    /\ pack_pc = "loop"
    /\ sizes_to_files # <<>>
    /\ place_raises(bin_sizes) = "none"
    /\ LET size == Head(sizes_to_files)[1]
           file == Head(sizes_to_files)[2]
           k == target_index(size, bin_sizes, pack_fraction)
       IN  /\ bins' = append_to_bin(bins, k, file)
           /\ bin_sizes' = add_to_bin_size(bin_sizes, k, size)
    /\ sizes_to_files' = Tail(sizes_to_files)
    /\ UNCHANGED <<files_with_sizes, num_bins, pack_fraction, pack_pc, block_vars, verify_vars, main_vars>>

\* Lines 147-148 raising on a list of fewer than two bins.
PackRaise ==
    /\ pack_pc = "loop"
    /\ sizes_to_files # <<>>
    /\ place_raises(bin_sizes) # "none"
    /\ pack_pc' = place_raises(bin_sizes)
    /\ UNCHANGED <<files_with_sizes, num_bins, pack_fraction, sizes_to_files, bins,
                   bin_sizes, block_vars, verify_vars, main_vars>>

\* Line 158.
PackReturn ==
    /\ pack_pc = "loop"
    /\ sizes_to_files = <<>>
    /\ pack_pc' = "returned"
    /\ UNCHANGED <<files_with_sizes, num_bins, pack_fraction, sizes_to_files, bins,
                   bin_sizes, block_vars, verify_vars, main_vars>>

PackNext == PackSetup \/ PackPlace \/ PackRaise \/ PackReturn

SpecPack == PackInit /\ [][PackNext]_vars

\* ------------------------------------------------------ claims on the packer
occurrences(seq, x) == Cardinality({i \in 1..Len(seq) : seq[i] = x})

placed_files == {f \in DOMAIN files_with_sizes :
                    \A i \in 1..Len(sizes_to_files) : sizes_to_files[i][2] # f}

sizes_of(seq) == [i \in 1..Len(seq) |-> files_with_sizes[seq[i]]]

RECURSIVE sum_of_sizes(_)
sum_of_sizes(S) ==
    IF S = {} THEN 0
    ELSE LET f == CHOOSE x \in S : TRUE
         IN  files_with_sizes[f] + sum_of_sizes(S \ {f})

\* C1: with num_bins >= 2, after every placement and at the return, every
\* item already taken is in exactly one bin exactly once (and no other item is
\* in any bin), bin_sizes[k] is the sum of the sizes of the items of bins[k],
\* and sum(bin_sizes) is the sum of the sizes of the items taken; at the
\* return every input item has been taken.
C1_PackingConservation ==
    (num_bins >= 2 /\ pack_pc \in {"loop", "returned"}) =>
        /\ \A f \in DOMAIN files_with_sizes :
               sum([k \in 1..Len(bins) |-> occurrences(bins[k], f)])
                   = (IF f \in placed_files THEN 1 ELSE 0)
        /\ \A k \in 1..Len(bins) : \A i \in 1..Len(bins[k]) :
               bins[k][i] \in DOMAIN files_with_sizes
        /\ Len(bin_sizes) = Len(bins)
        /\ \A k \in 1..Len(bins) : bin_sizes[k] = sum(sizes_of(bins[k]))
        /\ sum(bin_sizes) = sum_of_sizes(placed_files)
        /\ (pack_pc = "returned" => placed_files = DOMAIN files_with_sizes)

C1_Witness ==
    /\ pack_pc = "returned"
    /\ num_bins >= 2
    /\ pack_fraction # <<1, 1>>
    /\ Cardinality(DOMAIN files_with_sizes) >= 3
    /\ bin_sizes[num_bins] > 0
    /\ bin_sizes[1] > 0

\* C2: the call returns normally, with num_bins bins and num_bins bin sizes,
\* for every num_bins >= 0 and every item map; with one bin, that bin holds
\* every item.
C2_BinCount ==
    /\ pack_pc \notin {"IndexError", "TypeError"}
    /\ pack_pc = "returned" =>
           /\ Len(bins) = num_bins
           /\ Len(bin_sizes) = num_bins
           /\ (num_bins = 1 =>
                   \A f \in DOMAIN files_with_sizes : occurrences(bins[1], f) = 1)

\* Plain greedy balancing: each item, in the order given, goes into the bin
\* of the smallest current size, the lowest-numbered one on ties.
RECURSIVE plain_greedy(_, _, _)
plain_greedy(todo, bins_, bin_sizes_) ==
    IF todo = <<>> THEN <<bins_, bin_sizes_>>
    ELSE LET least == Min({bin_sizes_[k] : k \in 1..Len(bin_sizes_)})
             k == Min({j \in 1..Len(bin_sizes_) : bin_sizes_[j] = least})
         IN  plain_greedy(Tail(todo),
                          [bins_ EXCEPT ![k] = Append(@, Head(todo)[2])],
                          [bin_sizes_ EXCEPT ![k] = @ + Head(todo)[1]])

\* C3: with last_bin_size_fraction = 1 and num_bins >= 2 the bins and bin
\* sizes returned are those of plain greedy balancing over the items in
\* descending (size, file) order.
C3_LastBinScaling ==
    (pack_pc = "returned" /\ pack_fraction = <<1, 1>> /\ num_bins >= 2) =>
        <<bins, bin_sizes>> =
            plain_greedy(reversed(sorted_sizes_to_files(files_with_sizes)),
                         [i \in 1..num_bins |-> <<>>], [i \in 1..num_bins |-> 0])

\* A tie between the last bin and an earlier one, and an item in the last bin.
C3_Witness ==
    /\ pack_pc = "returned"
    /\ pack_fraction = <<1, 1>>
    /\ num_bins >= 2
    /\ Cardinality(DOMAIN files_with_sizes) >= 3
    /\ bin_sizes[num_bins] > 0
    /\ \E k \in 1..(num_bins - 1) : bin_sizes[k] = bin_sizes[num_bins]

\* ----------------------------------------------- get_suitable_block_size
BlockFileSizes == {0, 1000, 8192, 100000, 3000000}

BlockFileCounts == {1, 3, 300, 6000, 10001}

\* Maps of one or two distinct sizes whose total stays within MaxTotalSize.
BlockInputs ==
    {b \in UNION {[S -> BlockFileCounts] : S \in SUBSET BlockFileSizes} :
        /\ Cardinality(DOMAIN b) \in 1..2
        /\ \A x \in DOMAIN b : x = 0 \/ b[x] <= (MaxTotalSize \div 2) \div x}

PackIdle ==
    /\ files_with_sizes = <<>>
    /\ num_bins = 0
    /\ pack_fraction = <<1, 1>>
    /\ sizes_to_files = <<>>
    /\ bins = <<>>
    /\ bin_sizes = <<>>
    /\ pack_pc = "idle"

BlockInit ==
    /\ file_size_values \in BlockInputs
    /\ block_size = 0
    /\ block_iterations = 0
    /\ block_pc = "call"
    /\ PackIdle
    /\ VerifyIdle
    /\ MainIdle

\* Lines 283-298.
BlockStart ==
    /\ block_pc = "call"
    /\ initial_raises(file_size_values) = "none"
    /\ block_size' = initial_block_size(file_size_values)
    /\ block_pc' = "while"
    /\ UNCHANGED <<file_size_values, block_iterations, pack_vars, verify_vars, main_vars>>

\* Line 288 raising.
BlockStartRaise ==
    /\ block_pc = "call"
    /\ initial_raises(file_size_values) # "none"
    /\ block_pc' = initial_raises(file_size_values)
    /\ UNCHANGED <<file_size_values, block_size, block_iterations, pack_vars, verify_vars, main_vars>>

\* Lines 301-302: one iteration of the while loop.
BlockDouble ==
    /\ block_pc = "while"
    /\ too_many_blocks(file_size_values, block_size)
    /\ block_iterations < MaxIterations
    /\ block_size' = doubled(file_size_values, block_size)
    /\ block_iterations' = block_iterations + 1
    /\ UNCHANGED <<file_size_values, block_pc, pack_vars, verify_vars, main_vars>>

\* Line 301: the condition is false, the loop is left.
BlockLeaveLoop ==
    /\ block_pc = "while"
    /\ ~too_many_blocks(file_size_values, block_size)
    /\ block_pc' = "round"
    /\ UNCHANGED <<file_size_values, block_size, block_iterations, pack_vars, verify_vars, main_vars>>

\* Lines 305-308.
BlockReturn ==
    /\ block_pc = "round"
    /\ block_size' = multiple_of_4(block_size)
    /\ block_pc' = "returned"
    /\ UNCHANGED <<file_size_values, block_iterations, pack_vars, verify_vars, main_vars>>

BlockNext == BlockStart \/ BlockStartRaise \/ BlockDouble \/ BlockLeaveLoop \/ BlockReturn

SpecBlock == BlockInit /\ [][BlockNext]_vars

\* C7: the function returns a block size for every non-empty map: it raises
\* nothing, and once the block size has reached the largest file's size with
\* total_size / block_size + len(sizes) still above 20000, the while loop is
\* left instead of being run again.
C7_BlockSizeTerminates ==
    [][(/\ block_pc = "while"
        /\ block_size = sizes_last(file_size_values)
        /\ too_many_blocks(file_size_values, block_size))
       => block_pc' # "while"]_vars

\* ------------------------------------------------------------------ verify
ReturnCodes == {0, 1, 2}

\* The volume directories as move_files_to_destination_dir and
\* create_md5_sums leave them: the files spread over the volumes, and a copy
\* of the par2 index file and an MD5SUM file in each.
volume_dirs_of(num_volumes_, volume_of_file) ==
    [v \in 1..num_volumes_ |->
        file_names({f \in DOMAIN volume_of_file : volume_of_file[f] = v})
            \cup {par2_index_name, md5sum_name}]

VerifyInit ==
    /\ num_volumes \in MIN_NUM_VOLUMES..MaxVolumes
    /\ \E n \in 0..MaxFiles : \E volume_of_file \in [1..n -> 1..num_volumes] :
           volume_dirs = volume_dirs_of(num_volumes, volume_of_file)
    /\ verify_i = 1
    /\ verify_link = 0
    /\ scratch_dirs = {}
    /\ links = {}
    /\ verify_codes = <<>>
    /\ verify_raised = "none"
    /\ verify_pc = "mkdtemp"
    /\ PackIdle
    /\ BlockIdle
    /\ MainIdle

\* Line 218.
VerifyMkdtemp ==
    /\ verify_pc = "mkdtemp"
    /\ scratch_dirs' = scratch_dirs \cup {verify_i}
    /\ links' = {}
    /\ verify_link' = 1
    /\ verify_pc' = "link"
    /\ UNCHANGED <<num_volumes, volume_dirs, verify_i, verify_codes, verify_raised,
                   pack_vars, block_vars, main_vars>>

\* Line 218 raising: no directory is made, the exception leaves verify.
VerifyMkdtempFails ==
    /\ verify_pc = "mkdtemp"
    /\ verify_raised' = "OSError"
    /\ verify_pc' = "exited"
    /\ UNCHANGED <<num_volumes, volume_dirs, verify_i, verify_link, scratch_dirs, links,
                   verify_codes, pack_vars, block_vars, main_vars>>

\* Lines 222-231: one iteration of the loop over dest_dirs.
VerifyLinkDir ==
    /\ verify_pc = "link"
    /\ links' = IF is_skipped(verify_link, verify_i) THEN links
                ELSE links_after_dir(links, verify_link, volume_dirs[verify_link])
    /\ verify_link' = verify_link + 1
    /\ verify_pc' = IF verify_link = num_volumes THEN "par2" ELSE "link"
    /\ UNCHANGED <<num_volumes, volume_dirs, verify_i, scratch_dirs, verify_codes,
                   verify_raised, pack_vars, block_vars, main_vars>>

\* Lines 226-231 raising (os.listdir or os.symlink fails).
VerifyLinkFails ==
    /\ verify_pc = "link"
    /\ ~is_skipped(verify_link, verify_i)
    /\ verify_raised' = "OSError"
    /\ verify_pc' = "finally"
    /\ UNCHANGED <<num_volumes, volume_dirs, verify_i, verify_link, scratch_dirs, links,
                   verify_codes, pack_vars, block_vars, main_vars>>

\* Lines 234-246.
VerifyPar2 ==
    /\ verify_pc = "par2"
    /\ \E return_code \in ReturnCodes :
           /\ verify_codes' = Append(verify_codes, return_code)
           /\ verify_raised' = raised_by_return_code(return_code)
    /\ verify_pc' = "finally"
    /\ UNCHANGED <<num_volumes, volume_dirs, verify_i, verify_link, scratch_dirs, links,
                   pack_vars, block_vars, main_vars>>

\* Line 234 raising (par2 cannot be started).
VerifyPar2NotStarted ==
    /\ verify_pc = "par2"
    /\ verify_raised' = "OSError"
    /\ verify_pc' = "finally"
    /\ UNCHANGED <<num_volumes, volume_dirs, verify_i, verify_link, scratch_dirs, links,
                   verify_codes, pack_vars, block_vars, main_vars>>

\* Lines 247-248, then the next sweep, the return, or the exception going on.
VerifyFinally ==
    /\ verify_pc = "finally"
    /\ scratch_dirs' = rmtree_in_finally(scratch_dirs, verify_i, verify_raised)
    /\ links' = {}
    /\ verify_pc' = IF verify_raised # "none" THEN "exited"
                    ELSE IF verify_i < num_volumes THEN "mkdtemp"
                    ELSE "returned"
    /\ verify_i' = IF verify_raised = "none" /\ verify_i < num_volumes
                   THEN verify_i + 1 ELSE verify_i
    /\ UNCHANGED <<num_volumes, volume_dirs, verify_link, verify_codes, verify_raised,
                   pack_vars, block_vars, main_vars>>

VerifyNext ==
    \/ VerifyMkdtemp
    \/ VerifyMkdtempFails
    \/ VerifyLinkDir
    \/ VerifyLinkFails
    \/ VerifyPar2
    \/ VerifyPar2NotStarted
    \/ VerifyFinally

SpecVerify == VerifyInit /\ [][VerifyNext]_vars

\* C5: verify returns normally only if par2 verify returned 0 or 1 in every
\* sweep 1..num_volumes, taken in increasing order; a sweep whose return code
\* is anything else is the last sweep started, and the run ends with exit
\* status 1.
C5_VerificationOutcome ==
    /\ Len(verify_codes) <= verify_i
    /\ verify_pc = "returned" =>
           /\ Len(verify_codes) = num_volumes
           /\ \A k \in 1..num_volumes : verify_codes[k] \in {0, 1}
    /\ \A k \in 1..Len(verify_codes) :
           verify_codes[k] \notin {0, 1} =>
               /\ k = Len(verify_codes)
               /\ k = verify_i
               /\ verify_pc \in {"finally", "exited"}
               /\ exit_status_of(verify_raised) = 1

C5_Witness ==
    /\ verify_pc = "exited"
    /\ Len(verify_codes) = 2
    /\ verify_codes[1] = 1
    /\ verify_codes[2] = 2

\* C6: when par2 verify of sweep i is invoked, test_dir holds a link for
\* every name found in a volume directory other than i, and no link of it
\* points into volume i's directory.
C6_SweepContents ==
    verify_pc = "par2" =>
        /\ \A v \in (1..num_volumes) \ {verify_i} : \A f \in volume_dirs[v] :
               \E l \in links : l[1] = f
        /\ \A l \in links : l[2] # verify_i

\* A sweep whose skipped volume holds a data file, other volumes holding some.
C6_Witness ==
    /\ verify_pc = "par2"
    /\ verify_i = 2
    /\ \E f \in volume_dirs[2] : f[1] = "file"
    /\ \E l \in links : l[1][1] = "file"

\* C10: at most one scratch directory exists at any time; none exists when
\* a sweep is about to start, nor after verify has returned or the exception
\* has left it.
C10_ScratchCleanup ==
    /\ Cardinality(scratch_dirs) <= 1
    /\ verify_pc \in {"mkdtemp", "returned", "exited"} => scratch_dirs = {}

\* The run has ended on an error while the links were made, in a later sweep.
C10_Witness ==
    /\ verify_pc = "exited"
    /\ verify_raised = "OSError"
    /\ verify_i = 2
    /\ verify_link >= 1
    /\ Len(verify_codes) = 1

\* -------------------------------------------------------------------- main
Redundancies == {0, 5, 20, 25}

InputEntries ==
    {[kind |-> "file", basename |-> "data", ext |-> "", size |-> 0],
     [kind |-> "file", basename |-> "data", ext |-> "", size |-> 500000],
     [kind |-> "file", basename |-> "old", ext |-> ".par2", size |-> 500000],
     [kind |-> "file", basename |-> ".DS_Store", ext |-> "", size |-> 500000]}

ArgsBlockSizes == {0, 100}

ArgsNumBlocks == {0, 20000}

ArchiveSizes == {32, 50000000}

\* The sizes 7z may give the archives: here no archive is smaller than that
\* of a file that sorts before it.
archive_sizes_of(files) ==
    {a \in [files -> ArchiveSizes] : \A f \in files, g \in files : f < g => a[f] <= a[g]}

RecoveryFileSizes == {4096}

MainInit ==
    /\ num_volumes \in MIN_NUM_VOLUMES..MaxVolumes
    /\ args_redundancy \in Redundancies
    /\ force \in BOOLEAN
    /\ indir \in UNION {[1..n -> InputEntries] : n \in 0..MaxFiles}
    /\ args_block_size = 0
    /\ args_num_blocks = 0
    /\ compress = FALSE
    /\ adjusted_bin_sizes = <<>>
    /\ tmpdir_exists = FALSE
    /\ file_sizes = <<>>
    /\ num_data_blocks = 0
    /\ num_recovery_blocks = 0
    /\ processes = {}
    /\ main_raised = "none"
    /\ exit_at = "none"
    /\ main_pc = "args"
    /\ PackIdle
    /\ BlockIdle
    /\ volume_dirs = <<>>
    /\ verify_i = 0
    /\ verify_link = 0
    /\ scratch_dirs = {}
    /\ links = {}
    /\ verify_codes = <<>>
    /\ verify_raised = "none"
    /\ verify_pc = "idle"

redundancy == redundancy_or_default(args_redundancy)

\* What main does not touch in most of its steps.
main_frame == <<sizes_to_files, file_size_values, block_iterations, block_pc, verify_i,
                verify_link, scratch_dirs, links, verify_raised, verify_pc, num_volumes,
                args_redundancy, force, indir>>

\* Lines 402-418.
MainCheckArgs ==
    /\ main_pc = "args"
    /\ \E given_block_size \in ArgsBlockSizes, given_num_blocks \in ArgsNumBlocks :
           LET raises == check_args_raises(num_volumes, redundancy, given_block_size,
                                           given_num_blocks)
           IN  /\ args_block_size' = given_block_size
               /\ args_num_blocks' = given_num_blocks
               /\ main_raised' = raises
               /\ exit_at' = IF raises # "none" THEN "args" ELSE exit_at
               /\ main_pc' = IF raises # "none" THEN "exited" ELSE "list"
    /\ UNCHANGED <<main_frame, files_with_sizes, num_bins, pack_fraction, bins, bin_sizes,
                   pack_pc, block_size, volume_dirs, verify_codes, compress,
                   adjusted_bin_sizes, tmpdir_exists, file_sizes, num_data_blocks,
                   num_recovery_blocks, processes>>

\* Lines 420-454.
MainListInput ==
    /\ main_pc = "list"
    /\ LET raises == check_infiles_raises(indir, num_volumes, redundancy, force)
       IN  /\ main_raised' = raises
           /\ exit_at' = IF raises # "none" THEN "list" ELSE exit_at
           /\ main_pc' = IF raises # "none" THEN "exited" ELSE "pack"
           /\ files_with_sizes' = IF raises # "none" THEN files_with_sizes
                                  ELSE input_filesizes_of(indir)
    /\ UNCHANGED <<main_frame, num_bins, pack_fraction, bins, bin_sizes, pack_pc,
                   block_size, volume_dirs, verify_codes, args_block_size,
                   args_num_blocks, compress, adjusted_bin_sizes, tmpdir_exists,
                   file_sizes, num_data_blocks, num_recovery_blocks, processes>>

\* Lines 456-471.
MainPack ==
    /\ main_pc = "pack"
    /\ LET fraction == last_bin_size_fraction_of(redundancy)
           bins_wanted == num_bins_of(num_volumes, redundancy)
           packed == distribute_files_uniformly(files_with_sizes, bins_wanted, fraction)
           adjusted == adjusted_bin_sizes_of(packed.bin_sizes, fraction)
           raises == IF packed.raised # "none" THEN packed.raised
                     ELSE feasibility_raises(adjusted, num_volumes, force)
       IN  /\ num_bins' = bins_wanted
           /\ pack_fraction' = fraction
           /\ bins' = packed.bins
           /\ bin_sizes' = packed.bin_sizes
           /\ pack_pc' = IF packed.raised # "none" THEN packed.raised ELSE "returned"
           /\ adjusted_bin_sizes' = IF packed.raised # "none" THEN adjusted_bin_sizes
                                    ELSE adjusted
           /\ main_raised' = raises
           /\ exit_at' = IF raises # "none" THEN "pack" ELSE exit_at
           /\ main_pc' = IF raises # "none" THEN "exited" ELSE "password"
    /\ UNCHANGED <<main_frame, files_with_sizes, block_size, volume_dirs, verify_codes,
                   args_block_size, args_num_blocks, compress, tmpdir_exists, file_sizes,
                   num_data_blocks, num_recovery_blocks, processes>>

\* Lines 405 and 474-492: the password is asked for and checked when
\* --encrypt is given.
MainPassword ==
    /\ main_pc = "password"
    /\ \E args_compress \in BOOLEAN, args_encrypt \in BOOLEAN, password_accepted \in BOOLEAN :
           LET raises == IF args_encrypt /\ ~password_accepted THEN "SystemExit"
                         ELSE "none"
           IN  /\ compress' = (args_compress \/ args_encrypt)
               /\ main_raised' = raises
               /\ exit_at' = IF raises # "none" THEN "password" ELSE exit_at
               /\ main_pc' = IF raises # "none" THEN "exited" ELSE "mkdtemp"
    /\ UNCHANGED <<main_frame, files_with_sizes, num_bins, pack_fraction, bins, bin_sizes,
                   pack_pc, block_size, volume_dirs, verify_codes, args_block_size,
                   args_num_blocks, adjusted_bin_sizes, tmpdir_exists, file_sizes,
                   num_data_blocks, num_recovery_blocks, processes>>

\* Lines 494-501.
MainMkdtemp ==
    /\ main_pc = "mkdtemp"
    /\ tmpdir_exists' = TRUE
    /\ main_pc' = "copy"
    /\ UNCHANGED <<main_frame, files_with_sizes, num_bins, pack_fraction, bins, bin_sizes,
                   pack_pc, block_size, volume_dirs, verify_codes, args_block_size,
                   args_num_blocks, compress, adjusted_bin_sizes, file_sizes,
                   num_data_blocks, num_recovery_blocks, processes, main_raised, exit_at>>

\* Lines 497-499 failing: create_dir_if_not_exists_or_fail exits, or mkdtemp raises.
MainMkdtempFails ==
    /\ main_pc = "mkdtemp"
    /\ \E raises \in {"SystemExit", "OSError"} : main_raised' = raises
    /\ exit_at' = "mkdtemp"
    /\ main_pc' = "exited"
    /\ UNCHANGED <<main_frame, files_with_sizes, num_bins, pack_fraction, bins, bin_sizes,
                   pack_pc, block_size, volume_dirs, verify_codes, args_block_size,
                   args_num_blocks, compress, adjusted_bin_sizes, tmpdir_exists,
                   file_sizes, num_data_blocks, num_recovery_blocks, processes>>

\* Lines 504-518: every file archived by 7z, or copied.  The files keep their
\* places in the sorted order; an archive has whatever size 7z gives it.
MainCompressOrCopy ==
    /\ main_pc = "copy"
    /\ IF compress
       THEN /\ file_sizes' \in archive_sizes_of(DOMAIN files_with_sizes)
            /\ processes' = processes \cup {"7z"}
       ELSE /\ file_sizes' = files_with_sizes
            /\ processes' = processes
    /\ main_pc' = "par2"
    /\ UNCHANGED <<main_frame, files_with_sizes, num_bins, pack_fraction, bins, bin_sizes,
                   pack_pc, block_size, volume_dirs, verify_codes, args_block_size,
                   args_num_blocks, compress, adjusted_bin_sizes, tmpdir_exists,
                   num_data_blocks, num_recovery_blocks, main_raised, exit_at>>

\* Lines 76-78 and 90-92: a file cannot be archived or copied.
MainCompressOrCopyFails ==
    /\ main_pc = "copy"
    /\ processes' = IF compress THEN processes \cup {"7z"} ELSE processes
    /\ main_raised' = "SystemExit"
    /\ exit_at' = "copy"
    /\ main_pc' = "finally"
    /\ UNCHANGED <<main_frame, files_with_sizes, num_bins, pack_fraction, bins, bin_sizes,
                   pack_pc, block_size, volume_dirs, verify_codes, args_block_size,
                   args_num_blocks, compress, adjusted_bin_sizes, tmpdir_exists,
                   file_sizes, num_data_blocks, num_recovery_blocks>>

\* Lines 520-531 and 99: the block size, the block counts, and what raises.
par2_plan ==
    LET values == values_of(file_sizes)
        heuristic == IF args_num_blocks = 0 /\ args_block_size = 0
                     THEN get_suitable_block_size(values)
                     ELSE [raised |-> "none", block_size |-> args_block_size]
        data_blocks == IF heuristic.raised # "none" THEN 0
                       ELSE IF heuristic.block_size # 0
                       THEN get_total_num_blocks(values, heuristic.block_size)
                       ELSE args_num_blocks
        recovery_blocks == get_num_recovery_blocks(data_blocks, redundancy, num_volumes)
    IN  [raised |-> IF heuristic.raised # "none" THEN heuristic.raised
                    ELSE IF ~recovery_blocks_assertion(recovery_blocks)
                    THEN "AssertionError"
                    ELSE "none",
         block_size |-> heuristic.block_size,
         data_blocks |-> data_blocks,
         recovery_blocks |-> recovery_blocks]

\* The recovery file par2 writes beside the index file; it sorts after the
\* data files.
recovery_file == MaxFiles + 1

\* Lines 520-535, par2 create succeeding.
MainCreatePar2 ==
    /\ main_pc = "par2"
    /\ par2_plan.raised = "none"
    /\ block_size' = par2_plan.block_size
    /\ num_data_blocks' = par2_plan.data_blocks
    /\ num_recovery_blocks' = par2_plan.recovery_blocks
    /\ processes' = processes \cup {"par2 create"}
    /\ \E size \in RecoveryFileSizes :
           file_sizes' = [f \in DOMAIN file_sizes \cup {recovery_file} |->
                             IF f = recovery_file THEN size ELSE file_sizes[f]]
    /\ main_pc' = "move"
    /\ UNCHANGED <<main_frame, files_with_sizes, num_bins, pack_fraction, bins, bin_sizes,
                   pack_pc, volume_dirs, verify_codes, args_block_size, args_num_blocks,
                   compress, adjusted_bin_sizes, tmpdir_exists, main_raised, exit_at>>

\* Lines 520-535, par2 create failing (lines 117-119).
MainCreatePar2Fails ==
    /\ main_pc = "par2"
    /\ par2_plan.raised = "none"
    /\ block_size' = par2_plan.block_size
    /\ num_data_blocks' = par2_plan.data_blocks
    /\ num_recovery_blocks' = par2_plan.recovery_blocks
    /\ processes' = processes \cup {"par2 create"}
    /\ main_raised' = "SystemExit"
    /\ exit_at' = "par2"
    /\ main_pc' = "finally"
    /\ UNCHANGED <<main_frame, files_with_sizes, num_bins, pack_fraction, bins, bin_sizes,
                   pack_pc, volume_dirs, verify_codes, args_block_size, args_num_blocks,
                   compress, adjusted_bin_sizes, tmpdir_exists, file_sizes>>

\* Lines 520-534 raising before par2 is run: the assertion of line 99, or
\* the heuristic.
MainCreatePar2Raises ==
    /\ main_pc = "par2"
    /\ par2_plan.raised # "none"
    /\ block_size' = par2_plan.block_size
    /\ num_data_blocks' = par2_plan.data_blocks
    /\ num_recovery_blocks' = par2_plan.recovery_blocks
    /\ main_raised' = par2_plan.raised
    /\ exit_at' = "par2"
    /\ main_pc' = "finally"
    /\ UNCHANGED <<main_frame, files_with_sizes, num_bins, pack_fraction, bins, bin_sizes,
                   pack_pc, volume_dirs, verify_codes, args_block_size, args_num_blocks,
                   compress, adjusted_bin_sizes, tmpdir_exists, file_sizes, processes>>

\* Lines 539-542 (179-203): the files of tmpdir spread over the volume
\* directories, each of which gets a copy of the index file.
MainMove ==
    /\ main_pc = "move"
    /\ LET packed == distribute_files_uniformly(file_sizes, num_volumes, <<1, 1>>)
       IN  volume_dirs' = [v \in 1..num_volumes |->
                               file_names({packed.bins[v][i] : i \in 1..Len(packed.bins[v])})
                                   \cup {par2_index_name}]
    /\ file_sizes' = <<>>
    /\ main_pc' = "finally"
    /\ UNCHANGED <<main_frame, files_with_sizes, num_bins, pack_fraction, bins, bin_sizes,
                   pack_pc, block_size, verify_codes, args_block_size, args_num_blocks,
                   compress, adjusted_bin_sizes, tmpdir_exists, num_data_blocks,
                   num_recovery_blocks, processes, main_raised, exit_at>>

\* Lines 539-542 raising (a directory cannot be made, a file not moved).
MainMoveFails ==
    /\ main_pc = "move"
    /\ main_raised' = "OSError"
    /\ exit_at' = "move"
    /\ main_pc' = "finally"
    /\ UNCHANGED <<main_frame, files_with_sizes, num_bins, pack_fraction, bins, bin_sizes,
                   pack_pc, block_size, volume_dirs, verify_codes, args_block_size,
                   args_num_blocks, compress, adjusted_bin_sizes, tmpdir_exists,
                   file_sizes, num_data_blocks, num_recovery_blocks, processes>>

\* Lines 544-545.
MainFinally ==
    /\ main_pc = "finally"
    /\ tmpdir_exists' = FALSE
    /\ file_sizes' = <<>>
    /\ main_pc' = IF main_raised # "none" THEN "exited" ELSE "md5"
    /\ UNCHANGED <<main_frame, files_with_sizes, num_bins, pack_fraction, bins, bin_sizes,
                   pack_pc, block_size, volume_dirs, verify_codes, args_block_size,
                   args_num_blocks, compress, adjusted_bin_sizes, num_data_blocks,
                   num_recovery_blocks, processes, main_raised, exit_at>>

\* Line 547 (206-211).
MainMd5Sums ==
    /\ main_pc = "md5"
    /\ volume_dirs' = [v \in 1..num_volumes |-> volume_dirs[v] \cup {md5sum_name}]
    /\ processes' = processes \cup {"md5sum"}
    /\ main_pc' = "verify"
    /\ UNCHANGED <<main_frame, files_with_sizes, num_bins, pack_fraction, bins, bin_sizes,
                   pack_pc, block_size, verify_codes, args_block_size, args_num_blocks,
                   compress, adjusted_bin_sizes, tmpdir_exists, file_sizes,
                   num_data_blocks, num_recovery_blocks, main_raised, exit_at>>

\* Line 211 failing, here in the first directory: ExecutionFailed is not
\* caught.  The shell has made the MD5SUM file before md5sum runs.
MainMd5SumsFails ==
    /\ main_pc = "md5"
    /\ volume_dirs' = [volume_dirs EXCEPT ![1] = @ \cup {md5sum_name}]
    /\ processes' = processes \cup {"md5sum"}
    /\ main_raised' = "ExecutionFailed"
    /\ exit_at' = "md5"
    /\ main_pc' = "exited"
    /\ UNCHANGED <<main_frame, files_with_sizes, num_bins, pack_fraction, bins, bin_sizes,
                   pack_pc, block_size, verify_codes, args_block_size, args_num_blocks,
                   compress, adjusted_bin_sizes, tmpdir_exists, file_sizes,
                   num_data_blocks, num_recovery_blocks>>

\* Lines 551-552: verify as main sees it.  It is not called with
\* --no-verify; it returns, or raises SystemExit (line 246) or an OSError.
MainVerify ==
    /\ main_pc = "verify"
    /\ \E no_verify \in BOOLEAN, raises \in {"none", "SystemExit", "OSError"} :
           /\ no_verify => raises = "none"
           /\ processes' = IF no_verify THEN processes
                           ELSE processes \cup {"par2 verify"}
           /\ main_raised' = raises
           /\ exit_at' = IF raises # "none" THEN "verify" ELSE exit_at
           /\ main_pc' = IF raises # "none" THEN "exited" ELSE "finish"
    /\ UNCHANGED <<main_frame, files_with_sizes, num_bins, pack_fraction, bins, bin_sizes,
                   pack_pc, block_size, volume_dirs, verify_codes, args_block_size,
                   args_num_blocks, compress, adjusted_bin_sizes, tmpdir_exists,
                   file_sizes, num_data_blocks, num_recovery_blocks>>

\* Lines 554-577.
MainFinish ==
    /\ main_pc = "finish"
    /\ main_pc' = "exited"
    /\ exit_at' = "end"
    /\ UNCHANGED <<main_frame, files_with_sizes, num_bins, pack_fraction, bins, bin_sizes,
                   pack_pc, block_size, volume_dirs, verify_codes, args_block_size,
                   args_num_blocks, compress, adjusted_bin_sizes, tmpdir_exists,
                   file_sizes, num_data_blocks, num_recovery_blocks, processes,
                   main_raised>>

MainNext ==
    \/ MainCheckArgs
    \/ MainListInput
    \/ MainPack
    \/ MainPassword
    \/ MainMkdtemp
    \/ MainMkdtempFails
    \/ MainCompressOrCopy
    \/ MainCompressOrCopyFails
    \/ MainCreatePar2
    \/ MainCreatePar2Fails
    \/ MainCreatePar2Raises
    \/ MainMove
    \/ MainMoveFails
    \/ MainFinally
    \/ MainMd5Sums
    \/ MainMd5SumsFails
    \/ MainVerify
    \/ MainFinish

SpecMain == MainInit /\ [][MainNext]_vars

\* ---------------------------------------------------------- claims on main
\* C4: once the files are packed, when max(adjusted_bin_sizes) /
\* average(adjusted_bin_sizes) > num_volumes - 0.05 and --force is not given,
\* the run has ended there with exit status 1, no temporary directory made
\* and no external program run; with --force the run goes on past the check.
C4_FeasibilityCheck ==
    LET a == adjusted_bin_sizes
        total == sum(a)
        largest == Max({a[k] : k \in 1..Len(a)})
        \* largest / (total / Len(a)) > num_volumes - 1/20
        too_uneven == 20 * largest * Len(a) > (20 * num_volumes - 1) * total
    IN  (pack_pc = "returned" /\ total > 0 /\ too_uneven) =>
            IF force
            THEN exit_at # "pack"
            ELSE /\ main_pc = "exited"
                 /\ exit_at = "pack"
                 /\ exit_status_of(main_raised) = 1
                 /\ ~tmpdir_exists
                 /\ processes = {}

C4_Witness ==
    /\ ~force
    /\ main_pc = "exited"
    /\ exit_at = "pack"
    /\ pack_pc = "returned"
    /\ main_raised = "AttributeError"

\* C8: when indir holds a regular file with the extension .par2 and --force
\* is not given, the run never gets past the checks of the input files: it
\* makes no temporary directory, copies or archives no file, runs no
\* external program, and exits with status 1.
C8_Par2FilesRejected ==
    ((\E i \in 1..Len(indir) : indir[i].kind = "file" /\ indir[i].ext = ".par2")
     /\ ~force) =>
        /\ ~tmpdir_exists
        /\ file_sizes = <<>>
        /\ processes = {}
        /\ (main_pc = "exited" => exit_status_of(main_raised) = 1)

\* C9: par2 create is run only with 0 < num_recovery_blocks < 20000; when
\* ceil(data_blocks * fraction / (1 - fraction)), fraction being
\* redundancy / num_volumes, is outside that range the run fails without
\* par2 create having run, and the temporary directory is removed before the
\* exit.
C9_RecoveryBlockRange ==
    LET numerator == num_data_blocks * redundancy
        denominator == 10 * num_volumes - redundancy
        expected == IF numerator % denominator = 0 THEN numerator \div denominator
                    ELSE (numerator \div denominator) + 1
        par2_step_taken == exit_at = "par2" \/ "par2 create" \in processes
    IN  /\ "par2 create" \in processes =>
               /\ num_recovery_blocks = expected
               /\ 0 < num_recovery_blocks
               /\ num_recovery_blocks < 20000
        /\ (par2_step_taken /\ (expected <= 0 \/ expected >= 20000)) =>
               /\ "par2 create" \notin processes
               /\ exit_at = "par2"
               /\ main_pc \in {"finally", "exited"}
               /\ exit_status_of(main_raised) = 1
               /\ (main_pc = "exited" => ~tmpdir_exists)

\* The heuristic's block size gives too many recovery blocks.
C9_Witness ==
    /\ main_pc = "exited"
    /\ exit_at = "par2"
    /\ main_raised = "AssertionError"
    /\ args_block_size = 0
    /\ args_num_blocks = 0
    /\ num_recovery_blocks >= 20000

C9_WitnessBlockSize ==
    /\ main_pc = "exited"
    /\ exit_at = "par2"
    /\ main_raised = "AssertionError"
    /\ args_block_size # 0
    /\ ~compress

C9_WitnessNumBlocks ==
    /\ main_pc = "exited"
    /\ exit_at = "par2"
    /\ main_raised = "AssertionError"
    /\ args_num_blocks # 0

\* ------------------------------------------- the packer on equal-size items
MaxEqualFiles == 9

EqualSizes == {1, 1000}

EqualSizeFiles(n, size) == [f \in 1..n |-> size]

ScenarioInit ==
    /\ files_with_sizes \in
           {EqualSizeFiles(n, size) : n \in 0..MaxEqualFiles, size \in EqualSizes}
    /\ num_bins \in 0..MaxBins
    /\ pack_fraction \in PackFractions
    /\ sizes_to_files = <<>>
    /\ bins = <<>>
    /\ bin_sizes = <<>>
    /\ pack_pc = "call"
    /\ BlockIdle
    /\ VerifyIdle
    /\ MainIdle

SpecScenario == ScenarioInit /\ [][PackNext]_vars

\* The call of the scenario: 9 items of 1000 bytes, 3 bins, fraction 0.1.
scenario_returned ==
    /\ pack_pc = "returned"
    /\ files_with_sizes = EqualSizeFiles(9, 1000)
    /\ num_bins = 3
    /\ pack_fraction = <<1, 10>>

\* C11 as stated: for 9 items of size 1000 each, 3 bins and the last bin
\* scaled by 0.1, the packer places 3 items in each bin and returns the bin
\* sizes [3000, 3000, 3000].
C11_EqualSizeScenarioEven ==
    scenario_returned =>
        /\ \A k \in 1..3 : Len(bins[k]) = 3
        /\ bin_sizes = <<3000, 3000, 3000>>

\* C11 as amended: for 9 items of size 1000 each, 3 bins and the last bin
\* scaled by 0.1, the packer places 5 items in the first bin, 4 in the second
\* and none in the last, and returns the bin sizes [5000, 4000, 0].
C11_EqualSizeScenario ==
    scenario_returned =>
        /\ Len(bins) = 3
        /\ Len(bins[1]) = 5
        /\ Len(bins[2]) = 4
        /\ Len(bins[3]) = 0
        /\ bin_sizes = <<5000, 4000, 0>>

C11_Witness ==
    /\ scenario_returned
    /\ sum(bin_sizes) = 9000

\* ------------------------------------------- the unevenness as main computes it
\* Lines 463-464 compute in Python floats (IEEE 754 doubles). A positive
\* float is [m, e] with value m * 2^e and 2^52 <= m < 2^53; m is the pair
\* <<hi, lo>> = hi * FloatBase + lo of two 27-bit halves.
FloatBase == 134217728

\* The high half of 2^52.
FloatTop == 33554432

big_double(x) == <<2 * x[1] + (2 * x[2]) \div FloatBase, (2 * x[2]) % FloatBase>>

big_half(x) == <<x[1] \div 2, (x[2] + (x[1] % 2) * FloatBase) \div 2>>

big_ge(x, y) == x[1] > y[1] \/ (x[1] = y[1] /\ x[2] >= y[2])

big_sub(x, y) ==
    IF x[2] >= y[2] THEN <<x[1] - y[1], x[2] - y[2]>>
    ELSE <<x[1] - y[1] - 1, x[2] + FloatBase - y[2]>>

big_succ(x) == IF x[2] + 1 = FloatBase THEN <<x[1] + 1, 0>> ELSE <<x[1], x[2] + 1>>

\* x = <<hi, lo, e>>: the mantissa doubled until it reaches 2^52.
RECURSIVE normalized(_)
normalized(x) ==
    IF x[1] >= FloatTop THEN [m |-> <<x[1], x[2]>>, e |-> x[3]]
    ELSE LET m2 == big_double(<<x[1], x[2]>>)
         IN  normalized(<<m2[1], m2[2], x[3] - 1>>)

\* float(n) of an int n > 0 below 2^31: exact.
float_of_int(n) == normalized(<<n \div FloatBase, n % FloatBase, 0>>)

\* Long division by d: x = <<r, q, steps>> holds the remainder, the quotient
\* bits found so far and the number of bits still to find.
RECURSIVE quotient_bits(_, _)
quotient_bits(x, d) ==
    IF x[3] = 0 THEN [q |-> x[2], r |-> x[1]]
    ELSE LET r2 == big_double(x[1])
             bit == big_ge(r2, d)
             q2 == big_double(x[2])
         IN  quotient_bits(<<IF bit THEN big_sub(r2, d) ELSE r2,
                             IF bit THEN big_succ(q2) ELSE q2,
                             x[3] - 1>>, d)

\* a / b of two positive floats: the quotient rounded to the nearest float,
\* to the even one on a tie.
float_div(a, b) ==
    LET shift == ~big_ge(a.m, b.m)
        r0 == IF shift THEN big_double(a.m) ELSE a.m
        d == quotient_bits(<<big_sub(r0, b.m), <<0, 1>>, 53>>, b.m)
        kept == big_half(d.q)
        guard == d.q[2] % 2 = 1
        sticky == d.r # <<0, 0>>
        up == guard /\ (sticky \/ kept[2] % 2 = 1)
        rounded == IF up THEN big_succ(kept) ELSE kept
        e0 == a.e - b.e - 52 - (IF shift THEN 1 ELSE 0)
    IN  IF rounded[1] >= 2 * FloatTop
        THEN [m |-> big_half(rounded), e |-> e0 + 1]
        ELSE [m |-> rounded, e |-> e0]

float_greater(a, b) == a.e > b.e \/ (a.e = b.e /\ big_ge(a.m, b.m) /\ a.m # b.m)

\* Lines 463-464, for sum(adjusted_bin_sizes) > 0:
\*   average_volume_size = float(sum(adjusted_bin_sizes)) / len(adjusted_bin_sizes)
\*   unevenness = max(adjusted_bin_sizes) / average_volume_size
average_volume_size_of(adjusted_bin_sizes_) ==
    float_div(float_of_int(sum(adjusted_bin_sizes_)), float_of_int(Len(adjusted_bin_sizes_)))

unevenness_of(adjusted_bin_sizes_) ==
    float_div(float_of_int(max_of_seq(adjusted_bin_sizes_)),
              average_volume_size_of(adjusted_bin_sizes_))

\* ----------------------------------- main up to the feasibility check, with
\* more volumes than SpecMain runs through the whole pipeline
MaxUnevenVolumes == 7

MaxUnevenFiles == 2

UnevenRedundancies == {0, 5, 20}

UnevenEntries ==
    {[kind |-> "file", basename |-> "data", ext |-> "", size |-> 0],
     [kind |-> "file", basename |-> "data", ext |-> "", size |-> 17],
     [kind |-> "file", basename |-> "data", ext |-> "", size |-> 500000]}

UnevenInit ==
    /\ num_volumes \in MIN_NUM_VOLUMES..MaxUnevenVolumes
    /\ args_redundancy \in UnevenRedundancies
    /\ force \in BOOLEAN
    /\ indir \in UNION {[1..n -> UnevenEntries] : n \in 0..MaxUnevenFiles}
    /\ args_block_size = 0
    /\ args_num_blocks = 0
    /\ compress = FALSE
    /\ adjusted_bin_sizes = <<>>
    /\ tmpdir_exists = FALSE
    /\ file_sizes = <<>>
    /\ num_data_blocks = 0
    /\ num_recovery_blocks = 0
    /\ processes = {}
    /\ main_raised = "none"
    /\ exit_at = "none"
    /\ main_pc = "args"
    /\ PackIdle
    /\ BlockIdle
    /\ volume_dirs = <<>>
    /\ verify_i = 0
    /\ verify_link = 0
    /\ scratch_dirs = {}
    /\ links = {}
    /\ verify_codes = <<>>
    /\ verify_raised = "none"
    /\ verify_pc = "idle"

UnevenNext == MainCheckArgs \/ MainListInput \/ MainPack

SpecUneven == UnevenInit /\ [][UnevenNext]_vars

\* Line 464 has been run: the packer returned and the total size is positive.
unevenness_computed ==
    /\ pack_pc = "returned"
    /\ main_pc \in {"password", "exited"}
    /\ sum(adjusted_bin_sizes) > 0

\* Line 471 (in fact line 467) ended the run.
feasibility_blocked == exit_at = "pack" /\ main_raised = "AttributeError"

float_next(a) == [a EXCEPT !.m = big_succ(@)]

\* C12 as stated: for every input of positive total size, every num_volumes
\* >= 3 and every accepted redundancy, the unevenness computed in main is at
\* most num_bins = num_volumes - floor(redundancy); hence with redundancy >= 1
\* the feasibility check never blocks the run (it can block only when
\* redundancy < 1).
C12_UnevennessBound ==
    unevenness_computed =>
        /\ Len(adjusted_bin_sizes) = num_volumes - (redundancy \div 10)
        /\ ~float_greater(unevenness_of(adjusted_bin_sizes),
                          float_of_int(num_volumes - (redundancy \div 10)))
        /\ (redundancy >= 10 => ~feasibility_blocked)

\* C12 as amended: the unevenness computed in main is at most num_bins =
\* num_volumes - floor(redundancy) or the next float above it (the two float
\* divisions of lines 463-464 can round it one step above num_bins when one
\* volume holds everything); hence with redundancy >= 1 the feasibility check
\* never blocks the run (it can block only when redundancy < 1).
C12_UnevennessBoundRounded ==
    unevenness_computed =>
        /\ Len(adjusted_bin_sizes) = num_volumes - (redundancy \div 10)
        /\ ~float_greater(unevenness_of(adjusted_bin_sizes),
                          float_next(float_of_int(num_volumes - (redundancy \div 10))))
        /\ (redundancy >= 10 => ~feasibility_blocked)

\* Redundancy >= 1, no --force, one volume holding everything: the run goes
\* on past the check.
C12_Witness ==
    /\ unevenness_computed
    /\ redundancy >= 10
    /\ ~force
    /\ max_of_seq(adjusted_bin_sizes) = sum(adjusted_bin_sizes)
    /\ main_pc = "password"
====
